---- MODULE Spec2Model ----
(***************************************************************************)
(* Model of src/py.rs: the Python binding layer of the tokenizer.          *)
(*   - CoreBPE::_encode_bytes        (byte-boundary-safe encoding)         *)
(*   - the six *_to_buffer batch handlers and the decode/strip helpers     *)
(*   - TiktokenBuffer: __getbuffer__ / __releasebuffer__ and its lifetime  *)
(* The tokenizer engine itself (crate::CoreBPE::encode, encode_ordinary,   *)
(* decode_bytes, byte_pair_encode, _increase_last_piece_token_len) lives   *)
(* in lib.rs; it is modelled here from its contract.                       *)
(***************************************************************************)
EXTENDS Integers, Sequences, FiniteSets, TLC

VARIABLES
    vocab,      \* which (encoder, special_tokens_encoder) py_new was given
    call,       \* the last call made on CoreBPE: its inputs and its outcome
    prev,       \* the call before it (its result is the input of `call`)
    buf,        \* the TiktokenBuffer Python object (tokens, ob_refcnt, ...)
    views,      \* the consumer's Py_buffer structs, by slot
    heap,       \* live CString allocations made by __getbuffer__
    crashed     \* the process died (SIGSEGV)

vars == <<vocab, call, prev, buf, views, heap, crashed>>
bufVars == <<buf, views, heap, crashed>>

(***************************************************************************)
(* Bounds                                                                  *)
(***************************************************************************)
MaxBytesLen == 3    \* longest raw byte input of _encode_bytes
MaxBatch == 2       \* most items in one batch call
MaxMaxLen == 3      \* largest max_len given to a batch call
MaxRowLen == 2      \* longest token row given to a decode helper
MaxRows == 2        \* most rows of decode_batch_string's array
MaxViews == 2       \* Py_buffer slots of the consumer
MaxRefs == 2        \* most external references to one TiktokenBuffer

(***************************************************************************)
(* Bytes and text                                                          *)
(***************************************************************************)
\* ' ', 'a', 'b', and the two bytes of U+00E9 (0xC3 0xA9)
Alphabet == {32, 97, 98, 195, 169}

SeqsUpTo(S, n) == UNION {[1..k -> S] : k \in 0..n}

Take(s, n) == SubSeq(s, 1, n)
Drop(s, n) == SubSeq(s, n + 1, Len(s))

\* core::str::utf8_char_width
Utf8CharWidth(b) ==
    IF b < 128 THEN 1
    ELSE IF b >= 194 /\ b <= 223 THEN 2
    ELSE IF b >= 224 /\ b <= 239 THEN 3
    ELSE IF b >= 240 /\ b <= 244 THEN 4
    ELSE 0

IsCont(b) == b >= 128 /\ b <= 191

\* the continuation bytes of the character of width w starting at bytes[i]
Utf8ContOk(bytes, i, w) ==
    LET first == bytes[i]
        second == bytes[i + 1]
    IN  CASE w = 1 -> TRUE
          [] w = 2 -> IsCont(second)
          [] w = 3 -> /\ CASE first = 224 -> second >= 160 /\ second <= 191
                            [] first = 237 -> second >= 128 /\ second <= 159
                            [] OTHER -> IsCont(second)
                      /\ IsCont(bytes[i + 2])
          [] w = 4 -> /\ CASE first = 240 -> second >= 144 /\ second <= 191
                            [] first = 244 -> second >= 128 /\ second <= 143
                            [] OTHER -> IsCont(second)
                      /\ IsCont(bytes[i + 2])
                      /\ IsCont(bytes[i + 3])
          [] OTHER -> FALSE

\* std::str::from_utf8(bytes): Ok, or Err(e) with e.valid_up_to()
RECURSIVE Utf8Scan(_, _)
Utf8Scan(bytes, i) ==
    IF i > Len(bytes) THEN [ok |-> TRUE, valid_up_to |-> Len(bytes)]
    ELSE LET w == Utf8CharWidth(bytes[i])
         IN  IF w # 0 /\ i + w - 1 <= Len(bytes) /\ Utf8ContOk(bytes, i, w)
             THEN Utf8Scan(bytes, i + w)
             ELSE [ok |-> FALSE, valid_up_to |-> i - 1]

from_utf8(bytes) == Utf8Scan(bytes, 1)

IsText(bytes) == from_utf8(bytes).ok

(***************************************************************************)
(* The engine's tables, as given to py_new.  Vocabulary "A" leaves rank 0  *)
(* unused; vocabulary "B" gives rank 0 to a real token, as py_new allows.  *)
(***************************************************************************)
EncoderA ==
    (<<97>> :> 1) @@ (<<98>> :> 2) @@ (<<97, 98>> :> 3) @@ (<<32>> :> 4) @@
    (<<195>> :> 5) @@ (<<169>> :> 6) @@ (<<195, 169>> :> 7) @@
    (<<32, 32>> :> 8) @@ (<<97, 195>> :> 10)

EncoderB ==
    (<<97>> :> 0) @@ (<<98>> :> 1) @@ (<<97, 98>> :> 2) @@ (<<32>> :> 3) @@
    (<<195>> :> 5) @@ (<<169>> :> 6) @@ (<<195, 169>> :> 7) @@
    (<<32, 32>> :> 8)

\* one special token, spelled "bb"
SpecialTokensEncoder == (<<98, 98>> :> 9)

Vocabs == {"A", "B"}

encoder == IF vocab = "A" THEN EncoderA ELSE EncoderB
special_tokens_encoder == SpecialTokensEncoder

\* the inverse tables built by new_internal
Inverse(table) ==
    [r \in {table[p] : p \in DOMAIN table} |-> CHOOSE p \in DOMAIN table : table[p] = r]

DecoderA == Inverse(EncoderA)
DecoderB == Inverse(EncoderB)
SpecialTokensDecoder == Inverse(SpecialTokensEncoder)

decoder == IF vocab = "A" THEN DecoderA ELSE DecoderB
special_tokens_decoder == SpecialTokensDecoder

\* the allowed_special sets a caller passes
AllowedSets == {{}, DOMAIN SpecialTokensEncoder}

(***************************************************************************)
(* The engine (lib.rs), from its contract                                  *)
(***************************************************************************)
\* byte_pair_merge: merge the adjacent pair of lowest rank, leftmost first,
\* until no adjacent pair is in the table
RECURSIVE BytePairMerge(_, _)
BytePairMerge(parts, ranks) ==
    LET pairs == {i \in 1..(Len(parts) - 1) : (parts[i] \o parts[i + 1]) \in DOMAIN ranks}
        rk(i) == ranks[parts[i] \o parts[i + 1]]
    IN  IF pairs = {} THEN parts
        ELSE LET best == CHOOSE i \in pairs :
                             \A j \in pairs : rk(i) < rk(j) \/ (rk(i) = rk(j) /\ i <= j)
                 merged == [k \in 1..(Len(parts) - 1) |->
                               IF k < best THEN parts[k]
                               ELSE IF k = best THEN parts[best] \o parts[best + 1]
                               ELSE parts[k + 1]]
             IN  BytePairMerge(merged, ranks)

\* byte_pair_encode(piece, ranks)
byte_pair_encode(piece, ranks) ==
    LET parts == BytePairMerge([k \in 1..Len(piece) |-> <<piece[k]>>], ranks)
    IN  [k \in 1..Len(parts) |-> ranks[parts[k]]]

\* the tokens of one regex piece: the whole piece if it is a token, else BPE
EncodePiece(piece) ==
    IF piece \in DOMAIN encoder THEN <<encoder[piece]>>
    ELSE byte_pair_encode(piece, encoder)

\* the split pattern given to py_new, "[^ ]+| ": a run of non-space
\* characters, or one space
RECURSIVE RegexSplit(_)
RegexSplit(text) ==
    IF text = <<>> THEN <<>>
    ELSE IF text[1] = 32 THEN <<(<<32>>)>> \o RegexSplit(Drop(text, 1))
    ELSE LET stops == {i \in 1..Len(text) : text[i] = 32}
             n == IF stops = {} THEN Len(text)
                  ELSE (CHOOSE i \in stops : \A j \in stops : i <= j) - 1
         IN  <<Take(text, n)>> \o RegexSplit(Drop(text, n))

\* the ordinary encode of a sequence of pieces: (tokens, last_piece_token_len)
RECURSIVE EncodePieces(_, _, _)
EncodePieces(pieces, ret, lpl) ==
    IF pieces = <<>> THEN <<ret, lpl>>
    ELSE LET toks == EncodePiece(Head(pieces))
         IN  EncodePieces(Tail(pieces), ret \o toks, Len(toks))

\* encode_ordinary(text)
encode_ordinary(text) == EncodePieces(RegexSplit(text), <<>>, 0)[1]

\* the start of the next allowed special token at or after `from`, or 0
NextSpecial(text, from, allowed) ==
    LET hits == {p \in from..Len(text) :
                    \E s \in allowed : /\ s \in DOMAIN special_tokens_encoder
                                       /\ p + Len(s) - 1 <= Len(text)
                                       /\ SubSeq(text, p, p + Len(s) - 1) = s}
    IN  IF hits = {} THEN 0 ELSE CHOOSE p \in hits : \A q \in hits : p <= q

SpecialAt(text, p, allowed) ==
    CHOOSE s \in allowed : /\ s \in DOMAIN special_tokens_encoder
                           /\ p + Len(s) - 1 <= Len(text)
                           /\ SubSeq(text, p, p + Len(s) - 1) = s

\* encode(text, allowed_special) -> (tokens, last_piece_token_len)
RECURSIVE EncodeFrom(_, _, _, _, _)
EncodeFrom(text, start, allowed, ret, lpl) ==
    LET m == NextSpecial(text, start, allowed)
        end == IF m = 0 THEN Len(text) + 1 ELSE m
        ord == EncodePieces(RegexSplit(SubSeq(text, start, end - 1)), ret, lpl)
    IN  IF m = 0 THEN ord
        ELSE LET s == SpecialAt(text, m, allowed)
             IN  EncodeFrom(text, m + Len(s), allowed,
                            Append(ord[1], special_tokens_encoder[s]), 0)

encode(text, allowed) == EncodeFrom(text, 1, allowed, <<>>, 0)

\* decode_bytes(tokens): the bytes, or the first unknown id
RECURSIVE DecodeFrom(_, _)
DecodeFrom(tokens, acc) ==
    IF tokens = <<>> THEN [ok |-> TRUE, bytes |-> acc]
    ELSE LET t == Head(tokens)
         IN  IF t \in DOMAIN decoder THEN DecodeFrom(Tail(tokens), acc \o decoder[t])
             ELSE IF t \in DOMAIN special_tokens_decoder
                  THEN DecodeFrom(Tail(tokens), acc \o special_tokens_decoder[t])
             ELSE [ok |-> FALSE, token |-> t]

decode_bytes(tokens) == DecodeFrom(tokens, <<>>)

\* _increase_last_piece_token_len: a last piece that is all whitespace is
\* extended over the whitespace tokens before it
TokenIsAllSpace(t) ==
    /\ t \in DOMAIN decoder
    /\ \A k \in 1..Len(decoder[t]) : decoder[t][k] \in {32, 10, 9}

RECURSIVE GrowLastPiece(_, _)
GrowLastPiece(tokens, lpl) ==
    IF lpl < Len(tokens) /\ TokenIsAllSpace(tokens[Len(tokens) - lpl])
    THEN GrowLastPiece(tokens, lpl + 1)
    ELSE lpl

_increase_last_piece_token_len(tokens, lpl) ==
    IF lpl > 0 /\ TokenIsAllSpace(tokens[Len(tokens) - lpl + 1])
    THEN <<tokens, GrowLastPiece(tokens, lpl)>>
    ELSE <<tokens, lpl>>

(***************************************************************************)
(* CoreBPE::_encode_bytes                                                  *)
(***************************************************************************)
\* UnstableSplit without line 271: the invalid tail is not appended to the
\* bytes decoded from the lopped tokens
UnstableSplit_DropTail(tokens, lpl, bytes, valid_up_to) ==
    IF tokens # <<>> /\ lpl > 0
    THEN [unstable_bytes |->
              decode_bytes(SubSeq(tokens, Len(tokens) - lpl + 1, Len(tokens))).bytes,
          tokens |-> Take(tokens, Len(tokens) - lpl)]
    ELSE [unstable_bytes |-> Drop(bytes, valid_up_to), tokens |-> tokens]

\* lines 261-276: the bytes to re-tokenize and the tokens that survive
UnstableSplit(tokens, lpl, bytes, valid_up_to) ==
    IF tokens # <<>> /\ lpl > 0
    THEN [unstable_bytes |->
              decode_bytes(SubSeq(tokens, Len(tokens) - lpl + 1, Len(tokens))).bytes
                  \o Drop(bytes, valid_up_to),
          tokens |-> Take(tokens, Len(tokens) - lpl)]
    ELSE [unstable_bytes |-> Drop(bytes, valid_up_to), tokens |-> tokens]

\* lines 278-286: the tokens of the unstable bytes are appended
PushUnstable(tokens, unstable_bytes) ==
    IF unstable_bytes # <<>>
    THEN IF unstable_bytes \in DOMAIN encoder
         THEN Append(tokens, encoder[unstable_bytes])
         ELSE tokens \o byte_pair_encode(unstable_bytes, encoder)
    ELSE tokens

\* the Err(e) arm
EncodeBytesFallback(bytes, valid_up_to) ==
    LET text == Take(bytes, valid_up_to)
        enc == encode(text, {})
        inc == _increase_last_piece_token_len(enc[1], enc[2])
        sp == UnstableSplit(inc[1], inc[2], bytes, valid_up_to)
    IN  PushUnstable(sp.tokens, sp.unstable_bytes)

\* _encode_bytes without the Ok(text) arm: text too has its last piece lopped
\* and re-tokenized
_encode_bytes_AlwaysFallback(bytes) ==
    EncodeBytesFallback(bytes, from_utf8(bytes).valid_up_to)

\* fn _encode_bytes, lines 248-290
_encode_bytes(bytes) ==
    LET r == from_utf8(bytes)
    IN  IF r.ok THEN encode_ordinary(bytes)
        ELSE EncodeBytesFallback(bytes, r.valid_up_to)

(***************************************************************************)
(* The *_to_buffer batch handlers                                          *)
(***************************************************************************)
\* Vec::resize(max_len, 0): truncate, or pad on the right with 0
resize(vec, max_len) ==
    [j \in 1..max_len |-> IF j <= Len(vec) THEN vec[j] ELSE 0]

\* encoded.into_iter().flatten().collect()
RECURSIVE flatten(_)
flatten(rows) ==
    IF rows = <<>> THEN <<>> ELSE Head(rows) \o flatten(Tail(rows))

\* lines 50-58: pad every row, then flatten
PadAndFlatten(encoded, max_len) ==
    flatten([i \in 1..Len(encoded) |-> resize(encoded[i], max_len)])

\* TiktokenBuffer { tokens }.into_py(py): a new Python object, one reference
\* (the caller's), owning the Vec
IntoPy(tokens) ==
    [state |-> "live", tokens |-> tokens, exported |-> tokens,
     ob_refcnt |-> 1, pyrefs |-> 1]

\* the items a caller passes: "", "a", "ab", "abb", "bb", "a b", U+00E9,
\* and U+00E9 cut after its first byte
BatchItems ==
    {<<>>, <<97>>, <<97, 98>>, <<97, 98, 98>>, <<98, 98>>, <<97, 32, 98>>,
     <<195, 169>>, <<195>>}

\* a Vec<String> or an array of str holds text only
TextItems == {b \in BatchItems : IsText(b)}

Batches(S) == SeqsUpTo(S, MaxBatch)

OrdinaryOps == {"encode_ordinary_list_string_to_buffer",
                "encode_ordinary_numpy_bytes_to_buffer",
                "encode_ordinary_numpy_string_to_buffer"}
SpecialOps == {"encode_list_string_to_buffer",
               "encode_numpy_bytes_to_buffer",
               "encode_numpy_string_to_buffer"}
BytesOps == {"encode_ordinary_numpy_bytes_to_buffer", "encode_numpy_bytes_to_buffer"}
BatchOps == OrdinaryOps \cup SpecialOps

\* the outcome of a batch handler whose per-item encodes are `encoded`
BatchReturn(op, texts, max_len, allowed, encoded) ==
    /\ call' = [op |-> op, texts |-> texts, max_len |-> max_len, allowed |-> allowed,
                status |-> "ok", flat |-> PadAndFlatten(encoded, max_len)]
    /\ buf' = IntoPy(PadAndFlatten(encoded, max_len))
    /\ UNCHANGED <<vocab, prev, views, heap, crashed>>

\* str::from_utf8(text).unwrap() on an item that is not text: the handler
\* panics, nothing is returned
BatchPanic(op, texts, max_len, allowed) ==
    /\ call' = [op |-> op, texts |-> texts, max_len |-> max_len, allowed |-> allowed,
                status |-> "panic"]
    /\ UNCHANGED <<vocab, prev, bufVars>>

py_encode_ordinary_batch_to_buffer ==
    /\ call.op = "idle"
    /\ \E texts \in Batches(TextItems), max_len \in 0..MaxMaxLen :
        /\ BatchReturn("encode_ordinary_list_string_to_buffer", texts, max_len, {},
                       [i \in 1..Len(texts) |-> encode_ordinary(texts[i])])

py_encode_ordinary_numpy_bytes_to_buffer ==
    /\ call.op = "idle"
    /\ \E texts \in Batches(BatchItems), max_len \in 0..MaxMaxLen :
        /\ IF \A i \in 1..Len(texts) : from_utf8(texts[i]).ok
           THEN BatchReturn("encode_ordinary_numpy_bytes_to_buffer", texts, max_len, {},
                            [i \in 1..Len(texts) |-> encode_ordinary(texts[i])])
           ELSE BatchPanic("encode_ordinary_numpy_bytes_to_buffer", texts, max_len, {})

py_encode_ordinary_numpy_string_to_buffer ==
    /\ call.op = "idle"
    /\ \E texts \in Batches(TextItems), max_len \in 0..MaxMaxLen :
        /\ BatchReturn("encode_ordinary_numpy_string_to_buffer", texts, max_len, {},
                       [i \in 1..Len(texts) |-> encode_ordinary(texts[i])])

py_encode_batch_to_buffer ==
    /\ call.op = "idle"
    /\ \E texts \in Batches(TextItems), max_len \in 0..MaxMaxLen, allowed \in AllowedSets :
        /\ BatchReturn("encode_list_string_to_buffer", texts, max_len, allowed,
                       [i \in 1..Len(texts) |-> encode(texts[i], allowed)[1]])

py_encode_numpy_bytes_to_buffer ==
    /\ call.op = "idle"
    /\ \E texts \in Batches(BatchItems), max_len \in 0..MaxMaxLen, allowed \in AllowedSets :
        /\ IF \A i \in 1..Len(texts) : from_utf8(texts[i]).ok
           THEN BatchReturn("encode_numpy_bytes_to_buffer", texts, max_len, allowed,
                            [i \in 1..Len(texts) |-> encode(texts[i], allowed)[1]])
           ELSE BatchPanic("encode_numpy_bytes_to_buffer", texts, max_len, allowed)

py_encode_numpy_string_to_buffer ==
    /\ call.op = "idle"
    /\ \E texts \in Batches(TextItems), max_len \in 0..MaxMaxLen, allowed \in AllowedSets :
        /\ BatchReturn("encode_numpy_string_to_buffer", texts, max_len, allowed,
                       [i \in 1..Len(texts) |-> encode(texts[i], allowed)[1]])

(***************************************************************************)
(* Decode / strip helpers                                                  *)
(***************************************************************************)
\* tokens.iter().rposition(|&x| x != 0): the last non-zero position, or 0
RECURSIVE rposition_nonzero(_)
rposition_nonzero(tokens) ==
    IF tokens = <<>> THEN 0
    ELSE IF tokens[Len(tokens)] # 0 THEN Len(tokens)
    ELSE rposition_nonzero(Take(tokens, Len(tokens) - 1))

\* lines 346-350, 360-364, 381-385: truncate(pos + 1), or clear
StripPadding(tokens) == Take(tokens, rposition_nonzero(tokens))

\* lines 352-355: decode_bytes, its error raised as KeyError
StripBytesOutcome(tokens) ==
    LET stripped == StripPadding(tokens)
        r == decode_bytes(stripped)
    IN  IF r.ok THEN [status |-> "ok", stripped |-> stripped, bytes |-> r.bytes]
        ELSE [status |-> "KeyError", stripped |-> stripped]

\* StripStringOutcome with the text error raised as the lookup error
StripStringOutcome_OneKind(tokens) ==
    LET stripped == StripPadding(tokens)
        r == decode_bytes(stripped)
    IN  IF r.ok /\ from_utf8(r.bytes).ok
        THEN [status |-> "ok", stripped |-> stripped, text |-> r.bytes]
        ELSE [status |-> "KeyError", stripped |-> stripped]

\* lines 366-369 and 386-391: decode_bytes, its error raised as KeyError;
\* then String::from_utf8, its error raised as UnicodeDecodeError
StripStringOutcome(tokens) ==
    LET stripped == StripPadding(tokens)
        r == decode_bytes(stripped)
    IN  IF r.ok
        THEN IF from_utf8(r.bytes).ok
             THEN [status |-> "ok", stripped |-> stripped, text |-> r.bytes]
             ELSE [status |-> "UnicodeDecodeError", stripped |-> stripped]
        ELSE [status |-> "KeyError", stripped |-> stripped]

\* collect::<Result<Vec<String>, PyErr>>(): the first row's error, or all texts
RECURSIVE CollectRows(_, _)
CollectRows(outcomes, acc) ==
    IF outcomes = <<>> THEN [status |-> "ok", texts |-> acc]
    ELSE IF Head(outcomes).status = "ok"
         THEN CollectRows(Tail(outcomes), Append(acc, Head(outcomes).text))
         ELSE [status |-> Head(outcomes).status]

\* token ids a caller passes: the padding value, a token of text, a token
\* holding half a character, an id in no table
DecodeIds == {0, 1, 5, 12}

TokenRows == SeqsUpTo(DecodeIds, MaxRowLen)

\* decode_strip_bytes(tokens) on row i of the batch result just returned
DecodeStripRow ==
    /\ call.op \in BatchOps
    /\ call.status = "ok"
    /\ \E i \in 1..Len(call.texts) :
          LET row == SubSeq(call.flat, (i - 1) * call.max_len + 1, i * call.max_len)
          IN  call' = [op |-> "decode_strip_bytes", tokens |-> row, row |-> i]
                          @@ StripBytesOutcome(row)
    /\ prev' = call
    /\ UNCHANGED <<vocab, bufVars>>

py_decode_strip_bytes ==
    /\ call.op = "idle"
    /\ \E tokens \in TokenRows :
        /\ call' = [op |-> "decode_strip_bytes", tokens |-> tokens, row |-> 0]
                       @@ StripBytesOutcome(tokens)
        /\ UNCHANGED <<vocab, prev, bufVars>>

py_decode_strip_string ==
    /\ call.op = "idle"
    /\ \E tokens \in TokenRows :
        /\ call' = [op |-> "decode_strip_string", tokens |-> tokens]
                       @@ StripStringOutcome(tokens)
        /\ UNCHANGED <<vocab, prev, bufVars>>

py_decode_batch_string ==
    /\ call.op = "idle"
    /\ \E n \in 0..MaxRows, w \in 0..MaxRowLen :
           \E array \in [1..n -> [1..w -> DecodeIds]] :
            /\ call' = [op |-> "decode_batch_string", array |-> array]
                           @@ CollectRows([i \in 1..n |-> StripStringOutcome(array[i])], <<>>)
            /\ UNCHANGED <<vocab, prev, bufVars>>

(***************************************************************************)
(* Calls                                                                   *)
(***************************************************************************)
Idle == [op |-> "idle"]
NoBuf == [state |-> "none"]

InitRest ==
    /\ call = Idle
    /\ prev = Idle
    /\ buf = NoBuf
    /\ views = [v \in 1..MaxViews |-> [state |-> "unused"]]
    /\ heap = {}
    /\ crashed = FALSE

\* the caller is done with the result of the last call and drops it
Return ==
    /\ call.op # "idle"
    /\ call' = Idle
    /\ prev' = Idle
    /\ buf' = NoBuf
    /\ UNCHANGED <<vocab, views, heap, crashed>>

\* _encode_bytes(bytes)
EncodeBytes ==
    /\ call.op = "idle"
    /\ \E bytes \in SeqsUpTo(Alphabet, MaxBytesLen) :
        /\ call' = [op |-> "_encode_bytes", bytes |-> bytes,
                    tokens |-> _encode_bytes(bytes)]
        /\ UNCHANGED <<vocab, prev, bufVars>>

\* decode_bytes(tokens), on the tokens the last call returned
py_decode_bytes ==
    /\ call.op = "_encode_bytes"
    /\ LET r == decode_bytes(call.tokens)
       IN  call' = IF r.ok THEN [op |-> "decode_bytes", tokens |-> call.tokens,
                                 status |-> "ok", bytes |-> r.bytes]
                   ELSE [op |-> "decode_bytes", tokens |-> call.tokens,
                         status |-> "KeyError"]
    /\ prev' = call
    /\ UNCHANGED <<vocab, bufVars>>

InitEnc == vocab \in Vocabs /\ InitRest
NextEnc == EncodeBytes \/ py_decode_bytes \/ Return
SpecEnc == InitEnc /\ [][NextEnc]_vars

(***************************************************************************)
(* TiktokenBuffer: the buffer protocol                                     *)
(***************************************************************************)
PyBUF_WRITABLE == 1
PyBUF_FORMAT == 4
PyBUF_ND == 8
PyBUF_STRIDES == 24
\* std::mem::size_of::<Rank>(), the width of format "I"
RankSize == 4

\* the flags a consumer requests: combinations of the bits above, and the
\* stride bit alone
RequestFlags == {0, 1, 4, 5, 8, 12, 16, 24, 28, 29}

\* flags & mask
RECURSIVE BitAnd(_, _)
BitAnd(a, b) ==
    IF a = 0 \/ b = 0 THEN 0
    ELSE (a % 2) * (b % 2) + 2 * BitAnd(a \div 2, b \div 2)

\* line 437, compared against the mask with the format bit as well
WritableRequested_Exact(flags) == flags = PyBUF_WRITABLE

\* line 437: (flags & PyBUF_WRITABLE) == PyBUF_WRITABLE
WritableRequested(flags) == BitAnd(flags, PyBUF_WRITABLE) = PyBUF_WRITABLE

\* line 443 storing the pointer without taking a reference
CloneRef_Borrowed(b) == b

\* line 443: slf.clone().into_any().into_ptr() takes a new strong reference
CloneRef(b) == [b EXCEPT !.ob_refcnt = @ + 1]

\* std::ptr::null_mut(), as the address of a C string
NullPtr == 0

\* lines 445-468: the Py_buffer fields; format is the address of the CString
\* allocated for slot v, shape points at the len field, strides at the
\* itemsize field
FillView(v, flags, data) ==
    [state |-> "filled",
     flags |-> flags,
     obj |-> "slf",
     buf |-> "tokens.as_ptr()",
     len |-> Len(data) * RankSize,
     readonly |-> 1,
     itemsize |-> RankSize,
     format |-> IF BitAnd(flags, PyBUF_FORMAT) = PyBUF_FORMAT
                THEN v ELSE NullPtr,
     ndim |-> 1,
     shape |-> IF BitAnd(flags, PyBUF_ND) = PyBUF_ND THEN "&len" ELSE "NULL",
     strides |-> IF BitAnd(flags, PyBUF_STRIDES) = PyBUF_STRIDES
                 THEN "&itemsize" ELSE "NULL",
     suboffsets |-> "NULL",
     internal |-> "NULL"]

\* the value a pointer into the view itself points at
Deref(view, ptr) ==
    IF ptr = "&len" THEN view.len ELSE view.itemsize

\* Py_DECREF: the last reference deallocates the object and its Vec
PyDecRef(b) ==
    IF b.ob_refcnt = 1
    THEN [state |-> "freed", exported |-> b.exported, ob_refcnt |-> 0, pyrefs |-> b.pyrefs]
    ELSE [b EXCEPT !.ob_refcnt = @ - 1]

\* the texts a caller encodes into a buffer: "", "a", "abb"
ExportTexts == {<<>>, <<97>>, <<97, 98, 98>>}

\* encode_to_tiktoken_buffer(text, allowed_special)
encode_to_tiktoken_buffer ==
    /\ call.op = "idle"
    /\ ~crashed
    /\ \E text \in ExportTexts, allowed \in AllowedSets :
        /\ buf.state # "live"
        /\ buf' = IntoPy(encode(text, allowed)[1])
        /\ call' = [op |-> "encode_to_tiktoken_buffer", text |-> text, allowed |-> allowed]
        /\ UNCHANGED <<vocab, prev, views, heap, crashed>>

\* __getbuffer__(slf, view, flags); v = 0 is a null view pointer
getbuffer ==
    /\ call.op = "idle"
    /\ ~crashed
    /\ \E v \in 0..MaxViews, flags \in RequestFlags :
        /\ buf.state = "live"
        /\ v # 0 => views[v].state = "unused"
        /\ IF v = 0 \/ WritableRequested(flags)
           THEN /\ call' = [op |-> "__getbuffer__", view |-> v, flags |-> flags,
                            status |-> "BufferError"]
                /\ UNCHANGED <<buf, views, heap>>
           ELSE /\ call' = [op |-> "__getbuffer__", view |-> v, flags |-> flags,
                            status |-> "ok"]
                /\ buf' = CloneRef(buf)
                /\ views' = [views EXCEPT ![v] = FillView(v, flags, buf.tokens)]
                /\ heap' = IF FillView(v, flags, buf.tokens).format = NullPtr THEN heap
                           ELSE heap \cup {FillView(v, flags, buf.tokens).format}
        /\ UNCHANGED <<vocab, prev, crashed>>

\* PyBuffer_Release(view): __releasebuffer__(slf, view), then the view's
\* reference is dropped.  Line 474 hands view.format to CString::from_raw
\* whatever it is; from_raw of a null pointer is undefined behaviour: the
\* process dies in strlen, or the null "string" is dropped with no effect.
releasebuffer ==
    /\ call.op = "idle"
    /\ ~crashed
    /\ \E v \in 1..MaxViews, survives \in BOOLEAN :
        /\ buf.state = "live"
        /\ views[v].state = "filled"
        /\ call' = [op |-> "__releasebuffer__", view |-> v, from_raw |-> views[v].format]
        /\ IF views[v].format = NullPtr /\ ~survives
           THEN /\ crashed' = TRUE
                /\ UNCHANGED <<buf, views, heap>>
           ELSE /\ heap' = heap \ {views[v].format}
                /\ views' = [views EXCEPT ![v] = [state |-> "unused"]]
                /\ buf' = PyDecRef(buf)
                /\ UNCHANGED crashed
        /\ UNCHANGED <<vocab, prev>>

\* the consumer copies its reference to the object
PyIncRefExternal ==
    /\ ~crashed
    /\ call.op = "idle"
    /\ buf.state = "live"
    /\ buf.pyrefs > 0
    /\ buf.pyrefs < MaxRefs
    /\ buf' = [buf EXCEPT !.ob_refcnt = @ + 1, !.pyrefs = @ + 1]
    /\ call' = [op |-> "Py_INCREF"]
    /\ UNCHANGED <<vocab, prev, views, heap, crashed>>

\* the consumer drops one of its references
PyDecRefExternal ==
    /\ ~crashed
    /\ call.op = "idle"
    /\ buf.state = "live"
    /\ buf.pyrefs > 0
    /\ buf' = PyDecRef([buf EXCEPT !.pyrefs = @ - 1])
    /\ call' = [op |-> "Py_DECREF"]
    /\ UNCHANGED <<vocab, prev, views, heap, crashed>>

\* the consumer moves on to its next step
Ack ==
    /\ ~crashed
    /\ call.op # "idle"
    /\ call' = Idle
    /\ UNCHANGED <<vocab, prev, bufVars>>

NextBuf ==
    \/ encode_to_tiktoken_buffer
    \/ getbuffer
    \/ releasebuffer
    \/ PyIncRefExternal
    \/ PyDecRefExternal
    \/ Ack
SpecBuf == InitEnc /\ [][NextBuf]_vars

NextBatch ==
    \/ py_encode_ordinary_batch_to_buffer
    \/ py_encode_ordinary_numpy_bytes_to_buffer
    \/ py_encode_ordinary_numpy_string_to_buffer
    \/ py_encode_batch_to_buffer
    \/ py_encode_numpy_bytes_to_buffer
    \/ py_encode_numpy_string_to_buffer
    \/ DecodeStripRow
    \/ Return
SpecBatch == InitEnc /\ [][NextBatch]_vars

NextDec ==
    \/ py_decode_strip_bytes
    \/ py_decode_strip_string
    \/ py_decode_batch_string
    \/ Return
SpecDec == InitEnc /\ [][NextDec]_vars

(***************************************************************************)
(* Properties                                                              *)
(***************************************************************************)
\* b is s.bytes()[..k] for a text s over the alphabet: at most one byte of
\* a character is missing
IsTruncatedText(b) == \E c \in SeqsUpTo(Alphabet, 1) : IsText(b \o c)

\* C1: for every text s and every byte offset k,
\* decode_bytes(_encode_bytes(s.bytes()[..k])) succeeds and equals
\* s.bytes()[..k], also when k cuts a character in half.
C1_RoundTrip ==
    (call.op = "decode_bytes" /\ IsTruncatedText(prev.bytes))
        => (call.status = "ok" /\ call.bytes = prev.bytes)

\* C1's case: the input ends in the first half of a character, after text
C1_Witness ==
    /\ call.op = "decode_bytes"
    /\ call.status = "ok"
    /\ IsTruncatedText(prev.bytes)
    /\ ~IsText(prev.bytes)
    /\ from_utf8(prev.bytes).valid_up_to > 0
    /\ call.bytes = prev.bytes

\* C9: for every byte sequence b that is text (the empty one included),
\* _encode_bytes(b) is exactly encode_ordinary(b); the empty input gives no
\* tokens.
C9_TextDelegates ==
    (call.op = "_encode_bytes" /\ IsText(call.bytes))
        => /\ call.tokens = encode_ordinary(call.bytes)
           /\ (call.bytes = <<>> => call.tokens = <<>>)

\* C9's case: text of several pieces whose last piece, re-tokenized as one
\* unit, would give other tokens
C9_Witness ==
    /\ call.op = "_encode_bytes"
    /\ IsText(call.bytes)
    /\ call.bytes = <<32, 32>>
    /\ Len(call.tokens) = 2

\* the encode a batch handler selects for item i of call c
SelectedEncode(c, i) ==
    IF c.op \in OrdinaryOps THEN encode_ordinary(c.texts[i])
    ELSE encode(c.texts[i], c.allowed)[1]

\* row i of the flat array holds the first min(len_i, max_len) tokens of the
\* selected encode of item i, then zeros
RowsLaidOut(c) ==
    /\ Len(c.flat) = Len(c.texts) * c.max_len
    /\ \A i \in 1..Len(c.texts), j \in 1..c.max_len :
          c.flat[(i - 1) * c.max_len + j] =
              IF j <= Len(SelectedEncode(c, i)) THEN SelectedEncode(c, i)[j] ELSE 0

\* C2: for every batch of n items and every max_len, each *_to_buffer
\* handler returns a flat array of exactly n * max_len ids whose positions
\* [i*max_len, (i+1)*max_len) hold the first min(len_i, max_len) tokens of
\* the selected encode of item i and then zeros.
C2_BatchLayout ==
    call.op \in BatchOps =>
        /\ call.status = "ok"
        /\ RowsLaidOut(call)
        /\ buf.tokens = call.flat

\* what the handlers do guarantee: a call whose items are all text returns,
\* and every call that returns has its rows laid out
LayoutOfReturnedBatch ==
    call.op \in BatchOps =>
        /\ (\A i \in 1..Len(call.texts) : IsText(call.texts[i])) <=> call.status = "ok"
        /\ call.status = "ok" => RowsLaidOut(call) /\ buf.tokens = call.flat

\* one item longer than max_len and one shorter, in one batch
TruncatedAndPadded ==
    /\ call.op \in BatchOps
    /\ call.status = "ok"
    /\ Len(call.texts) = 2
    /\ call.max_len > 0
    /\ Len(SelectedEncode(call, 1)) > call.max_len
    /\ Len(SelectedEncode(call, 2)) < call.max_len

Min(a, b) == IF a < b THEN a ELSE b

\* C3: stripping row i of a batch result gives exactly the encode of item i,
\* truncated to max_len tokens when it is longer; no token of the encode is
\* removed.
C3_StripRecoversEncode ==
    (call.op = "decode_strip_bytes" /\ call.row > 0) =>
        LET e == SelectedEncode(prev, call.row)
        IN  call.stripped = Take(e, Min(Len(e), prev.max_len))

\* C6: the batch handlers that take raw byte items always return, and row i
\* is the padded or truncated _encode_bytes of item i, also for an item
\* that is not text.
C6_BytesBatchBoundarySafe ==
    call.op \in BytesOps =>
        /\ call.status = "ok"
        /\ \A i \in 1..Len(call.texts), j \in 1..call.max_len :
              call.flat[(i - 1) * call.max_len + j] =
                  IF j <= Len(_encode_bytes(call.texts[i]))
                  THEN _encode_bytes(call.texts[i])[j] ELSE 0

\* the row up to its last non-zero id
Stripped(row) ==
    LET nz == {k \in 1..Len(row) : row[k] # 0}
    IN  IF nz = {} THEN <<>> ELSE Take(row, CHOOSE k \in nz : \A j \in nz : j <= k)

KnownIds == DOMAIN decoder \cup DOMAIN special_tokens_decoder

\* what decoding a row as text must report
ExpectedKind(row) ==
    IF \E k \in 1..Len(Stripped(row)) : Stripped(row)[k] \notin KnownIds THEN "KeyError"
    ELSE IF ~IsText(decode_bytes(Stripped(row)).bytes) THEN "UnicodeDecodeError"
    ELSE "ok"

\* C8: decode_strip_string and decode_batch_string fail with KeyError when
\* the stripped row holds an unknown id, with UnicodeDecodeError when all ids
\* are known and the bytes are not text, and return the text otherwise;
\* decode_batch_string reports its first failing row; decode_strip_bytes
\* never reports UnicodeDecodeError.
C8_DistinctErrors ==
    /\ call.op = "decode_strip_string" =>
          /\ call.status = ExpectedKind(call.tokens)
          /\ call.status = "ok" => call.text = decode_bytes(Stripped(call.tokens)).bytes
    /\ call.op = "decode_batch_string" =>
          LET bad == {i \in 1..Len(call.array) : ExpectedKind(call.array[i]) # "ok"}
          IN  IF bad = {}
              THEN /\ call.status = "ok"
                   /\ call.texts = [i \in 1..Len(call.array) |->
                                       decode_bytes(Stripped(call.array[i])).bytes]
              ELSE call.status = ExpectedKind(call.array[CHOOSE i \in bad : \A j \in bad : i <= j])
    /\ call.op = "decode_strip_bytes" => call.status \in {"ok", "KeyError"}

\* C8's case: a padded row whose ids are all known and decode to half a
\* character
C8_Witness ==
    /\ call.op = "decode_strip_string"
    /\ call.status = "UnicodeDecodeError"
    /\ Len(call.stripped) < Len(call.tokens)
    /\ call.stripped # <<>>

Filled == {v \in 1..MaxViews : views[v].state = "filled"}

\* bit k (of value 2^k = m) of flags, read without BitAnd
HasBit(flags, m) == (flags \div m) % 2 = 1

\* C4: a __getbuffer__ request with the writable bit set fails with
\* BufferError and fills no view; every request that succeeds, and so every
\* view handed out, reports readonly = 1.
C4_ReadOnlyExport ==
    /\ call.op = "__getbuffer__" =>
          /\ HasBit(call.flags, 1) =>
                /\ call.status = "BufferError"
                /\ call.view # 0 => views[call.view].state = "unused"
          /\ call.status = "ok" => views[call.view].readonly = 1
    /\ \A v \in Filled : views[v].readonly = 1 /\ ~HasBit(views[v].flags, 1)

\* C4's case: a writable request with other metadata bits is refused while
\* another view of the same object is held
C4_Witness ==
    /\ call.op = "__getbuffer__"
    /\ call.status = "BufferError"
    /\ call.view # 0
    /\ HasBit(call.flags, 1)
    /\ call.flags # 1
    /\ Filled # {}

\* C5: every view describes the n tokens as a contiguous 1-D array:
\* ndim = 1, itemsize = width of Rank, len = n * itemsize, shape[0] = n when
\* a shape array is supplied, strides[0] = itemsize when a stride array is
\* supplied, and the fields not requested are null.
C5_ViewConsistent ==
    \A v \in Filled :
        LET view == views[v]
            n == Len(buf.tokens)
        IN  /\ view.ndim = 1
            /\ view.itemsize = RankSize
            /\ view.len = n * view.itemsize
            /\ view.shape # "NULL" =>
                  /\ Deref(view, view.shape) = n
                  /\ Deref(view, view.shape) * view.itemsize = view.len
            /\ view.strides # "NULL" => Deref(view, view.strides) = view.itemsize
            /\ HasBit(view.flags, 8) <=> view.shape # "NULL"
            /\ (HasBit(view.flags, 8) /\ HasBit(view.flags, 16)) <=> view.strides # "NULL"
            /\ HasBit(view.flags, 4) <=> view.format # NullPtr
            /\ view.suboffsets = "NULL"

\* the references to the export that are alive: the consumer's own, and one
\* per view it holds
Alive == buf.pyrefs + Cardinality(Filled)

\* C7: while a view or an external reference is alive the export object
\* still owns the token memory, unchanged since export; once the last one is
\* released the memory is freed, and not before.
C7_Lifetime ==
    buf.state # "none" =>
        /\ Alive > 0 => /\ buf.state = "live"
                        /\ buf.tokens = buf.exported
                        /\ buf.ob_refcnt = Alive
        /\ Alive = 0 => buf.state = "freed"

\* C7's case: the consumer has dropped its own references and holds a view
C7_Witness ==
    /\ buf.state = "live"
    /\ buf.pyrefs = 0
    /\ Filled # {}
    /\ buf.tokens # <<>>

\* C10: the format string is allocated only when the format flag was
\* requested and stays allocated while its view is held; __releasebuffer__
\* reclaims it exactly once, and never hands a null format pointer to
\* CString::from_raw.
C10_FormatReclaim ==
    /\ \A v \in Filled : HasBit(views[v].flags, 4) <=> views[v].format # NullPtr
    /\ heap = {views[v].format : v \in Filled} \ {NullPtr}
    /\ call.op = "__releasebuffer__" => call.from_raw # NullPtr
    /\ ~crashed

====
